---- MODULE Spec2Model ----
(***************************************************************************)
(* send_message.py: a single-shot script.  It loads two secrets and a JSON *)
(* settings document, asks a chat-completion endpoint for one message and  *)
(* sends it to every configured Telegram chat id.                          *)
(*                                                                         *)
(* The environment (the .env values, the content of config.json, the       *)
(* answer of the generation endpoint, the outcome of every call on the     *)
(* Telegram bot) is nondeterministic.  The script itself is sequential: pc *)
(* is its position.  calls is the trace of the calls it makes on its       *)
(* collaborators and log the trace of its log records.                     *)
(***************************************************************************)
EXTENDS Integers, Sequences, FiniteSets, TLC

\* Longest configured chat id list that is explored.
MaxChats == 2
\* Longest text the generation endpoint returns in the exploration.
MaxLen == 2

\* ------------------------------------------------------------------------
\* Values read from .env and config.json.  A value is a tag and a payload:
\* the characters of a string, the items of a list, the entries of an
\* object, the number itself, 0/1 for a boolean.
\* ------------------------------------------------------------------------
JNull == [t |-> "null", v |-> <<>>]
JBool(b) == [t |-> "bool", v |-> <<IF b THEN 1 ELSE 0>>]
JNum(n) == [t |-> "num", v |-> <<n>>]
JStr(s) == [t |-> "str", v |-> s]
JObj(s) == [t |-> "obj", v |-> s]
JList(s) == [t |-> "list", v |-> s]

\* Python truthiness, as used by `not X`.
Truthy(x) ==
    CASE x.t = "null" -> FALSE
      [] x.t = "bool" -> x.v[1] = 1
      [] x.t = "num" -> x.v[1] # 0
      [] OTHER -> Len(x.v) > 0

\* isinstance(x, list)
IsList(x) == x.t = "list"

ChatIdPool == {111, 222}

RECURSIVE SeqsUpTo(_, _)
SeqsUpTo(S, n) ==
    IF n = 0 THEN {<<>>}
    ELSE LET shorter == SeqsUpTo(S, n - 1)
         IN  shorter \cup {Append(s, x) : s \in shorter, x \in S}

ChatLists == {JList(s) : s \in SeqsUpTo(ChatIdPool, MaxChats)}

\* The non-list values a settings key may hold (falsy and truthy of each type).
ScalarValues ==
    {JNull, JBool(FALSE), JBool(TRUE), JNum(0), JNum(7),
     JStr(<<>>), JStr(<<"x">>), JObj(<<>>), JObj(<<"k">>)}

ChatIdValues == ScalarValues \cup ChatLists
SettingValues == {JNull, JNum(0), JStr(<<>>), JStr(<<"x">>), JList(<<>>)}
EnvValues == {JNull, JStr(<<>>), JStr(<<"x">>)}

required_keys ==
    {"whitelisted_chat_ids", "openai_base_url", "openai_model", "openai_prompt"}
OtherKeys == required_keys \ {"whitelisted_chat_ids"}

\* Every settings document explored: any subset of the required keys present.
Configs ==
    UNION {
      UNION {
        {[k \in (D \cup C) |->
             IF k = "whitelisted_chat_ids" THEN cv ELSE f[k]] :
           f \in [D -> SettingValues], cv \in ChatIdValues}
        : C \in {{}, {"whitelisted_chat_ids"}} }
      : D \in SUBSET OtherKeys }

ConfigFiles == {"notfound", "badjson", "notdict", "dict"}

\* ------------------------------------------------------------------------
\* Text of the generated message.
\* ------------------------------------------------------------------------
Chars == {" ", "a"}
IsSpace(c) == c = " "

\* str.strip(): leading and trailing whitespace removed.
RECURSIVE Strip(_)
StripIdentity(s) == s
Strip(s) ==
    IF s = <<>> THEN s
    ELSE IF IsSpace(Head(s)) THEN Strip(Tail(s))
    ELSE IF IsSpace(s[Len(s)]) THEN Strip(SubSeq(s, 1, Len(s) - 1))
    ELSE s

Texts == SeqsUpTo(Chars, MaxLen)

\* inspiring_message: None, or a string.
NoneMsg == [none |-> TRUE, text |-> <<>>]
StrMsg(s) == [none |-> FALSE, text |-> s]
\* `if inspiring_message:` / `if not message:`
MsgTruthy(m) == ~m.none /\ Len(m.text) > 0

\* The exceptions the generation call may raise, by the handler that
\* catches them.
GenErrors ==
    {"AuthenticationError", "RateLimitError", "NotFoundError",
     "APIConnectionError", "Exception"}
\* Outcomes of the generation call: an exception, a first choice whose
\* content is a string, or a first choice without content.
GenOutcomes ==
    {[exc |-> e, hasContent |-> FALSE, content |-> <<>>] : e \in GenErrors}
    \cup {[exc |-> "none", hasContent |-> TRUE, content |-> s] : s \in Texts}
    \cup {[exc |-> "none", hasContent |-> FALSE, content |-> <<>>]}
NoGen == [exc |-> "pending", hasContent |-> FALSE, content |-> <<>>]

\* Outcomes of one bot.send_message call.
SendResults == {"ok", "BadRequest", "Forbidden", "Exception"}

VARIABLES
    env,                  \* the two secrets as os.getenv returns them
    cfgFile,              \* what open / json.load find at CONFIG_FILE
    config,               \* the parsed settings document
    pc,                   \* position of the script
    exitCode,             \* -1 while running, then the process exit code
    WHITELISTED_CHAT_IDS, \* module global set by configuration loading
    configLoaded,         \* configuration loading has succeeded
    genResult,            \* what the generation call did
    inspiring_message,    \* local of main
    sendState,            \* send_telegram_message: not_called/running/returned/raised
    idx,                  \* position of the for loop in chat_ids
    sent_count,           \* local of send_telegram_message
    calls,                \* trace of calls on the collaborators
    log                   \* trace of log records

vars ==
    <<env, cfgFile, config, pc, exitCode, WHITELISTED_CHAT_IDS, configLoaded,
      genResult, inspiring_message, sendState, idx, sent_count, calls, log>>

Rec(level, msg) ==
    [level |-> level, msg |-> msg, chat |-> 0, attempted |-> 0, succeeded |-> 0]
RecChat(level, msg, c) ==
    [level |-> level, msg |-> msg, chat |-> c, attempted |-> 0, succeeded |-> 0]
RecSummary(n, k) ==
    [level |-> "INFO", msg |-> "finished_sending", chat |-> 0,
     attempted |-> n, succeeded |-> k]

Call(op, chat, res) == [op |-> op, chat |-> chat, res |-> res]

Init ==
    /\ env \in [{"OPENAI_API_KEY", "TELEGRAM_BOT_TOKEN"} -> EnvValues]
    /\ cfgFile \in ConfigFiles
    /\ config \in (IF cfgFile = "dict" THEN Configs ELSE {<<>>})
    /\ pc = "load_env"
    /\ exitCode = -1
    /\ WHITELISTED_CHAT_IDS = <<>>
    /\ configLoaded = FALSE
    /\ genResult = NoGen
    /\ inspiring_message = NoneMsg
    /\ sendState = "not_called"
    /\ idx = 0
    /\ sent_count = 0
    /\ calls = <<>>
    /\ log = <<>>

\* ------------------------------------------------------------------------
\* Secrets loading (module level).
\* ------------------------------------------------------------------------
API_KEY == env["OPENAI_API_KEY"]
TELEGRAM_TOKEN == env["TELEGRAM_BOT_TOKEN"]

\* The ValueError raised by the two `if not ...` checks, "" when neither is.
EnvError ==
    IF ~Truthy(TELEGRAM_TOKEN) THEN "TELEGRAM_BOT_TOKEN not found"
    ELSE IF ~Truthy(API_KEY) THEN "API_KEY not found"
    ELSE ""

LoadEnv ==
    /\ pc = "load_env"
    /\ IF EnvError = ""
       THEN /\ log' = Append(log, Rec("INFO", "env_loaded"))
            /\ pc' = "load_config"
            /\ exitCode' = exitCode
       ELSE /\ log' = Append(log, Rec("ERROR", "fatal_env"))
            /\ pc' = "exit"
            /\ exitCode' = 1
    /\ UNCHANGED <<env, cfgFile, config, WHITELISTED_CHAT_IDS, configLoaded,
                   genResult, inspiring_message, sendState, idx, sent_count,
                   calls>>

\* ------------------------------------------------------------------------
\* Configuration loading (module level).
\* ------------------------------------------------------------------------
missing_keys(cfg) == {key \in required_keys : key \notin DOMAIN cfg}
empty_values(cfg) ==
    {key \in required_keys : key \in DOMAIN cfg /\ ~Truthy(cfg[key])}

strict_empty_check_exempt_all(cfg) == {}
strict_empty_check(cfg) ==
    {key \in empty_values(cfg) : key # "whitelisted_chat_ids"}

\* `if not isinstance(config["whitelisted_chat_ids"], list)`
chat_ids_not_list_truthy_only(cfg) ==
    /\ Truthy(cfg["whitelisted_chat_ids"])
    /\ ~IsList(cfg["whitelisted_chat_ids"])
chat_ids_not_list(cfg) == ~IsList(cfg["whitelisted_chat_ids"])

\* The ValueError the validation raises for a parsed document, "" when none.
ConfigError(cfg) ==
    IF missing_keys(cfg) # {} THEN "missing_keys"
    ELSE IF strict_empty_check(cfg) # {} THEN "empty_values"
    ELSE IF chat_ids_not_list(cfg) THEN "not_a_list"
    ELSE ""

\* The log records and the outcome of the whole try block.
ConfigLog ==
    CASE cfgFile = "notfound" -> <<Rec("ERROR", "fatal_config_not_found")>>
      [] cfgFile = "badjson" -> <<Rec("ERROR", "fatal_config_decode")>>
      [] cfgFile = "notdict" ->
            <<Rec("INFO", "config_parsed"), Rec("ERROR", "fatal_config_loading")>>
      [] OTHER ->
            IF ConfigError(config) # ""
            THEN <<Rec("INFO", "config_parsed"), Rec("ERROR", "fatal_config_error")>>
            ELSE <<Rec("INFO", "config_parsed"), Rec("INFO", "config_validated")>>
                 \o (IF ~Truthy(config["whitelisted_chat_ids"])
                     THEN <<Rec("WARNING", "config_chat_ids_empty")>>
                     ELSE <<>>)

ConfigAccepted == cfgFile = "dict" /\ ConfigError(config) = ""

LoadConfig ==
    /\ pc = "load_config"
    /\ log' = log \o ConfigLog
    /\ IF ConfigAccepted
       THEN /\ WHITELISTED_CHAT_IDS' = config["whitelisted_chat_ids"].v
            /\ configLoaded' = TRUE
            /\ pc' = "main"
            /\ exitCode' = exitCode
       ELSE /\ pc' = "exit"
            /\ exitCode' = 1
            /\ UNCHANGED <<WHITELISTED_CHAT_IDS, configLoaded>>
    /\ UNCHANGED <<env, cfgFile, config, genResult, inspiring_message,
                   sendState, idx, sent_count, calls>>

\* ------------------------------------------------------------------------
\* main and get_inspiring_message.
\* ------------------------------------------------------------------------
MainStart ==
    /\ pc = "main"
    /\ log' = Append(log, Rec("INFO", "script_started"))
    /\ pc' = "get_inspiring_message"
    /\ UNCHANGED <<env, cfgFile, config, exitCode, WHITELISTED_CHAT_IDS,
                   configLoaded, genResult, inspiring_message, sendState, idx,
                   sent_count, calls>>

\* The value get_inspiring_message returns for an outcome of the request.
\* A first choice without content makes .strip() raise, which the catch-all
\* handler turns into None.
GenReturn(r) ==
    IF r.exc = "none" /\ r.hasContent THEN StrMsg(Strip(r.content)) ELSE NoneMsg

GenLog(r) ==
    IF r.exc = "none" /\ r.hasContent THEN Rec("INFO", "api_success")
    ELSE IF r.exc = "AuthenticationError" THEN Rec("ERROR", "api_authentication_error")
    ELSE IF r.exc = "RateLimitError" THEN Rec("ERROR", "api_rate_limit_error")
    ELSE IF r.exc = "NotFoundError" THEN Rec("ERROR", "api_not_found_error")
    ELSE IF r.exc = "APIConnectionError" THEN Rec("ERROR", "api_connection_error")
    ELSE Rec("ERROR", "api_other_error")

GetInspiringMessage ==
    /\ pc = "get_inspiring_message"
    /\ \E r \in GenOutcomes :
          /\ genResult' = r
          /\ calls' = Append(calls, Call("chat.completions.create", 0, r.exc))
          /\ log' = log \o <<Rec("INFO", "requesting_message"), GenLog(r)>>
          /\ inspiring_message' = GenReturn(r)
    /\ pc' = "main_if"
    /\ UNCHANGED <<env, cfgFile, config, exitCode, WHITELISTED_CHAT_IDS,
                   configLoaded, sendState, idx, sent_count>>

\* `if inspiring_message:` in main.
MainSends_Always == TRUE
MainSends == MsgTruthy(inspiring_message)

MainIf ==
    /\ pc = "main_if"
    /\ IF MainSends
       THEN /\ sendState' = "running"
            /\ pc' = "send_telegram_message"
            /\ log' = log
       ELSE /\ log' = Append(log, Rec("ERROR", "failed_to_get_message"))
            /\ pc' = "main_finish"
            /\ sendState' = sendState
    /\ UNCHANGED <<env, cfgFile, config, exitCode, WHITELISTED_CHAT_IDS,
                   configLoaded, genResult, inspiring_message, idx, sent_count,
                   calls>>

MainFinish ==
    /\ pc = "main_finish"
    /\ log' = Append(log, Rec("INFO", "script_finished"))
    /\ pc' = "exit"
    /\ exitCode' = 0
    /\ UNCHANGED <<env, cfgFile, config, WHITELISTED_CHAT_IDS, configLoaded,
                   genResult, inspiring_message, sendState, idx, sent_count,
                   calls>>

\* ------------------------------------------------------------------------
\* send_telegram_message(TELEGRAM_TOKEN, WHITELISTED_CHAT_IDS, inspiring_message)
\* ------------------------------------------------------------------------
chat_ids == WHITELISTED_CHAT_IDS
message == inspiring_message

\* `if not chat_ids:` guard clause.
NoChatIds_Unguarded(ids) == FALSE
NoChatIds(ids) == Len(ids) = 0

SendGuard ==
    /\ pc = "send_telegram_message"
    /\ IF ~MsgTruthy(message)
       THEN /\ log' = Append(log, Rec("WARNING", "no_message_skipping"))
            /\ sendState' = "returned"
            /\ pc' = "main_finish"
       ELSE IF NoChatIds(chat_ids)
       THEN /\ log' = Append(log, Rec("WARNING", "no_chat_ids_skipping"))
            /\ sendState' = "returned"
            /\ pc' = "main_finish"
       ELSE /\ log' = Append(log, Rec("INFO", "initialising_bot"))
            /\ sendState' = sendState
            /\ pc' = "bot_ctor"
    /\ UNCHANGED <<env, cfgFile, config, exitCode, WHITELISTED_CHAT_IDS,
                   configLoaded, genResult, inspiring_message, idx, sent_count,
                   calls>>

\* bot = telegram.Bot(token=bot_token); sent_count = 0.  The constructor is
\* called before the try block: what it raises leaves send_telegram_message,
\* main and asyncio.run, and the interpreter exits with code 1.
BotCtor ==
    /\ pc = "bot_ctor"
    /\ \E ok \in BOOLEAN :
          /\ calls' = Append(calls, Call("Bot", 0, IF ok THEN "ok" ELSE "raised"))
          /\ IF ok
             THEN /\ sent_count' = 0
                  /\ pc' = "aenter"
                  /\ UNCHANGED <<sendState, exitCode>>
             ELSE /\ sendState' = "raised"
                  /\ pc' = "exit"
                  /\ exitCode' = 1
                  /\ sent_count' = sent_count
    /\ UNCHANGED <<env, cfgFile, config, WHITELISTED_CHAT_IDS, configLoaded,
                   genResult, inspiring_message, idx, log>>

\* `async with bot:` entered, inside the outer try.
BotEnter ==
    /\ pc = "aenter"
    /\ \E ok \in BOOLEAN :
          /\ calls' = Append(calls, Call("__aenter__", 0, IF ok THEN "ok" ELSE "raised"))
          /\ IF ok
             THEN /\ idx' = 1
                  /\ pc' = "loop"
                  /\ UNCHANGED <<log, sendState>>
             ELSE /\ log' = Append(log, Rec("ERROR", "bot_failed"))
                  /\ sendState' = "returned"
                  /\ pc' = "main_finish"
                  /\ idx' = idx
    /\ UNCHANGED <<env, cfgFile, config, exitCode, WHITELISTED_CHAT_IDS,
                   configLoaded, genResult, inspiring_message, sent_count>>

\* The exceptions of bot.send_message the handlers inside the loop catch.
CaughtInLoop_NoCatchAll(res) == res \in {"BadRequest", "Forbidden"}
CaughtInLoop(res) == res \in {"BadRequest", "Forbidden", "Exception"}

\* sent_count after a send with outcome res.
CountAfter_Attempts(count, res) == count + 1
CountAfter(count, res) == IF res = "ok" THEN count + 1 ELSE count

\* Whether asyncio.sleep(0.1) is reached after a send with outcome res.
SleepsAfter_Never(res) == FALSE
SleepsAfter(res) == res = "ok"

SendLog(c, res) ==
    <<RecChat("INFO", "attempting_send", c),
      IF res = "ok" THEN RecChat("INFO", "sent", c)
      ELSE IF res = "BadRequest" THEN RecChat("ERROR", "bad_request", c)
      ELSE IF res = "Forbidden" THEN RecChat("ERROR", "forbidden", c)
      ELSE RecChat("ERROR", "send_error", c)>>

\* One iteration of `for chat_id in chat_ids:` up to the sleep.
SendOne ==
    /\ pc = "loop"
    /\ idx <= Len(chat_ids)
    /\ \E res \in SendResults :
          /\ calls' = Append(calls, Call("send_message", chat_ids[idx], res))
          /\ sent_count' = CountAfter(sent_count, res)
          /\ IF res = "ok" \/ CaughtInLoop(res)
             THEN /\ log' = log \o SendLog(chat_ids[idx], res)
                  /\ pc' = IF SleepsAfter(res) THEN "sleep" ELSE "loop"
                  /\ idx' = IF SleepsAfter(res) THEN idx ELSE idx + 1
                  /\ sendState' = sendState
             ELSE \* leaves the loop and the `async with`; the outer handler logs
                  /\ log' = log \o <<RecChat("INFO", "attempting_send", chat_ids[idx]),
                                     Rec("ERROR", "bot_failed")>>
                  /\ pc' = "main_finish"
                  /\ idx' = idx
                  /\ sendState' = "returned"
    /\ UNCHANGED <<env, cfgFile, config, exitCode, WHITELISTED_CHAT_IDS,
                   configLoaded, genResult, inspiring_message>>

\* await asyncio.sleep(0.1), then the next iteration.
Sleep ==
    /\ pc = "sleep"
    /\ calls' = Append(calls, Call("sleep", 0, "ok"))
    /\ idx' = idx + 1
    /\ pc' = "loop"
    /\ UNCHANGED <<env, cfgFile, config, exitCode, WHITELISTED_CHAT_IDS,
                   configLoaded, genResult, inspiring_message, sendState,
                   sent_count, log>>

\* The loop is exhausted and the `async with` block is left.
BotExit ==
    /\ pc = "loop"
    /\ idx > Len(chat_ids)
    /\ \E ok \in BOOLEAN :
          /\ calls' = Append(calls, Call("__aexit__", 0, IF ok THEN "ok" ELSE "raised"))
          /\ IF ok
             THEN /\ pc' = "summary"
                  /\ UNCHANGED <<log, sendState>>
             ELSE /\ log' = Append(log, Rec("ERROR", "bot_failed"))
                  /\ sendState' = "returned"
                  /\ pc' = "main_finish"
    /\ UNCHANGED <<env, cfgFile, config, exitCode, WHITELISTED_CHAT_IDS,
                   configLoaded, genResult, inspiring_message, idx, sent_count>>

\* logging.info("Finished sending messages. Attempted: ..., Succeeded: ...")
Summary ==
    /\ pc = "summary"
    /\ log' = Append(log, RecSummary(Len(chat_ids), sent_count))
    /\ sendState' = "returned"
    /\ pc' = "main_finish"
    /\ UNCHANGED <<env, cfgFile, config, exitCode, WHITELISTED_CHAT_IDS,
                   configLoaded, genResult, inspiring_message, idx, sent_count,
                   calls>>

Next ==
    \/ LoadEnv
    \/ LoadConfig
    \/ MainStart
    \/ GetInspiringMessage
    \/ MainIf
    \/ SendGuard
    \/ BotCtor
    \/ BotEnter
    \/ SendOne
    \/ Sleep
    \/ BotExit
    \/ Summary
    \/ MainFinish

Spec == Init /\ [][Next]_vars

\* ------------------------------------------------------------------------
\* Vocabulary of the properties.
\* ------------------------------------------------------------------------
IsSend(c) == c.op = "send_message"
Sends == SelectSeq(calls, IsSend)
SendChats == [i \in 1..Len(Sends) |-> Sends[i].chat]
OkSends == Cardinality({i \in 1..Len(Sends) : Sends[i].res = "ok"})
Logged(msg) == Cardinality({i \in 1..Len(log) : log[i].msg = msg})
CallMade(op, res) == \E i \in 1..Len(calls) : calls[i].op = op /\ calls[i].res = res
BotOpened == CallMade("__aenter__", "ok")
InitFailed == CallMade("Bot", "raised") \/ CallMade("__aenter__", "raised")
Terminated == pc = "exit"

\* C1 as stated: once send_telegram_message has returned from a call with a
\* non-empty message and a non-empty chat id list, the sends issued are exactly
\* the configured list, in order.
C1_SendsAreConfiguredList ==
    (sendState = "returned" /\ MsgTruthy(message) /\ Len(chat_ids) > 0)
        => SendChats = chat_ids

\* C1 amended: the sends issued are always a prefix of the configured list, and
\* once send_telegram_message has returned from a call in which the bot session
\* was opened, they are the whole list, whatever the sends' outcomes were.
C1_SendsAreConfiguredListOnceOpened ==
    /\ Len(SendChats) <= Len(chat_ids)
    /\ \A i \in 1..Len(SendChats) : SendChats[i] = chat_ids[i]
    /\ (sendState = "returned" /\ BotOpened) => SendChats = chat_ids

C1_Witness ==
    /\ sendState = "returned"
    /\ BotOpened
    /\ Len(chat_ids) = 2
    /\ Len(Sends) = 2
    /\ Sends[1].res = "Exception"
    /\ SendChats = chat_ids

\* A secret is missing or empty; a settings key is missing or, other than the
\* chat id list, empty.
SecretsBad == ~Truthy(API_KEY) \/ ~Truthy(TELEGRAM_TOKEN)
SettingsBad ==
    /\ cfgFile = "dict"
    /\ \/ \E k \in required_keys : k \notin DOMAIN config
       \/ \E k \in OtherKeys \cap DOMAIN config : ~Truthy(config[k])

\* C2: with a secret missing or empty, a required settings key missing, or a
\* required key other than the chat id list empty, the run never gets past
\* loading, issues no call on any endpoint, and ends with exit code 1.
C2_FatalBeforeAnyNetworkCall ==
    (SecretsBad \/ SettingsBad)
        => /\ calls = <<>>
           /\ pc \in {"load_env", "load_config", "exit"}
           /\ ~configLoaded
           /\ Terminated => exitCode = 1

C2_Witness ==
    /\ ~SecretsBad
    /\ cfgFile = "dict"
    /\ DOMAIN config = required_keys
    /\ IsList(config["whitelisted_chat_ids"])
    /\ ~Truthy(config["openai_prompt"])
    /\ Terminated
    /\ exitCode = 1
    /\ calls = <<>>

\* The generation call raised one of the failure kinds.
GenFailed == genResult.exc \in GenErrors

\* C3: when the generation call raises, get_inspiring_message returns None to
\* main, send_telegram_message is never invoked and no send is issued.
C3_GenerationFailureSkipsBroadcast ==
    GenFailed
        => /\ inspiring_message = NoneMsg
           /\ pc \in {"main_if", "main_finish", "exit"}
           /\ sendState = "not_called"
           /\ Sends = <<>>

C3_Witness ==
    /\ genResult.exc = "AuthenticationError"
    /\ Terminated
    /\ sendState = "not_called"

\* A run whose settings were accepted with an empty chat id list.
EmptyListRun == configLoaded /\ Len(chat_ids) = 0
EmptyListWarnings == Logged("config_chat_ids_empty") + Logged("no_chat_ids_skipping")

\* C4 as stated: a finished run with an empty chat id list has issued no send,
\* has logged one warning about the empty list, and has not exited with 1.
C4_OneEmptyListWarning ==
    (EmptyListRun /\ Terminated)
        => /\ Sends = <<>>
           /\ EmptyListWarnings = 1
           /\ exitCode # 1

\* C4 amended: a run with an empty chat id list issues no send, never exits
\* with 1 and ends with 0; configuration loading logs one warning about the
\* empty list, and send_telegram_message logs a second one exactly when the
\* generation produced a non-empty message.
C4_EmptyListWarnsAtLoadAndAtSend ==
    EmptyListRun
        => /\ Sends = <<>>
           /\ exitCode # 1
           /\ Logged("config_chat_ids_empty") = 1
           /\ Terminated =>
                /\ exitCode = 0
                /\ Logged("no_chat_ids_skipping") =
                      (IF MsgTruthy(inspiring_message) THEN 1 ELSE 0)

C4_Witness ==
    /\ EmptyListRun
    /\ Terminated
    /\ MsgTruthy(inspiring_message)
    /\ EmptyListWarnings = 2
    /\ Sends = <<>>

\* C5: once configuration loading has succeeded, a run that ends has logged the
\* finish marker and exits with code 0.
C5_FinishMarkerAndExitZero ==
    (configLoaded /\ Terminated)
        => (exitCode = 0 /\ Logged("script_finished") = 1)

\* C6: when constructing the bot or opening its session fails, the failure is
\* logged, no send is attempted and send_telegram_message returns normally.
C6_InitFailureIsContained ==
    InitFailed
        => /\ Logged("bot_failed") = 1
           /\ Sends = <<>>
           /\ sendState = "returned"

\* The for loop over chat_ids was exhausted.
LoopCompleted == BotOpened /\ idx > Len(chat_ids)
SummaryLogged(n, k) ==
    \E i \in 1..Len(log) :
        /\ log[i].msg = "finished_sending"
        /\ log[i].attempted = n
        /\ log[i].succeeded = k

\* C7 as stated: a broadcast whose send loop ran to completion has, once it
\* returned, logged a summary with attempted = number of configured chat ids and
\* succeeded = number of sends that did not raise.
C7_SummaryAfterLoop ==
    (LoopCompleted /\ sendState = "returned")
        => SummaryLogged(Len(chat_ids), OkSends)

\* C7 amended: every summary logged has attempted = number of configured chat
\* ids and succeeded = number of sends that did not raise, and a broadcast whose
\* send loop ran to completion and whose bot session closed without error has,
\* once it returned, logged exactly one.
C7_SummaryCountsAfterCleanClose ==
    /\ \A i \in 1..Len(log) :
          log[i].msg = "finished_sending"
              => /\ log[i].attempted = Len(chat_ids)
                 /\ log[i].succeeded = OkSends
                 /\ Len(Sends) = Len(chat_ids)
    /\ (LoopCompleted /\ CallMade("__aexit__", "ok") /\ sendState = "returned")
          => Logged("finished_sending") = 1

C7_Witness ==
    /\ chat_ids = <<111, 222>>
    /\ Len(Sends) = 2
    /\ Sends[1].res = "ok"
    /\ Sends[2].res = "Forbidden"
    /\ SummaryLogged(2, 1)

\* C8 as stated: between any send attempt and a later one the pause occurs.
C8_PauseAfterEverySend ==
    \A i, j \in 1..Len(calls) :
        (i < j /\ IsSend(calls[i]) /\ IsSend(calls[j]))
            => \E k \in (i + 1)..(j - 1) : calls[k].op = "sleep"

\* C8 amended: a send that succeeded is followed by the pause before anything
\* else is called; a send that raised is followed by no pause.
C8_PauseAfterSuccessfulSendOnly ==
    /\ \A i \in 1..(Len(calls) - 1) :
          IsSend(calls[i])
              => (calls[i + 1].op = "sleep" <=> calls[i].res = "ok")
    /\ (Len(calls) > 0 /\ IsSend(calls[Len(calls)]) /\ calls[Len(calls)].res = "ok")
          => pc = "sleep"

C8_Witness ==
    \E i \in 1..(Len(calls) - 3) :
        /\ IsSend(calls[i]) /\ calls[i].res = "ok"
        /\ calls[i + 1].op = "sleep"
        /\ IsSend(calls[i + 2]) /\ calls[i + 2].res = "BadRequest"
        /\ calls[i + 3].op = "__aexit__"

\* Secrets and every settings key other than the chat id list are valid.
OtherwiseValid ==
    /\ ~SecretsBad
    /\ cfgFile = "dict"
    /\ DOMAIN config = required_keys
    /\ \A k \in OtherKeys : Truthy(config[k])

\* C9: with everything else valid, the settings are accepted exactly when the
\* chat id field is a list; an empty list is accepted with one warning, and any
\* other value, falsy or not, ends the run with exit code 1 before any call.
C9_ChatIdsMustBeList ==
    (OtherwiseValid /\ pc \notin {"load_env", "load_config"})
        => IF IsList(config["whitelisted_chat_ids"])
           THEN /\ configLoaded
                /\ chat_ids = config["whitelisted_chat_ids"].v
                /\ Logged("config_chat_ids_empty") =
                      (IF Len(chat_ids) = 0 THEN 1 ELSE 0)
           ELSE /\ Terminated
                /\ exitCode = 1
                /\ ~configLoaded
                /\ calls = <<>>

C9_Witness ==
    /\ OtherwiseValid
    /\ config["whitelisted_chat_ids"] = JNull
    /\ Terminated
    /\ exitCode = 1
    /\ calls = <<>>

\* The generation call returned a first choice whose text is blank.
BlankGenerated ==
    /\ genResult.exc = "none"
    /\ genResult.hasContent
    /\ \A i \in 1..Len(genResult.content) : IsSpace(genResult.content[i])

\* C10: when the generation call succeeds with a text that is empty or all
\* whitespace, send_telegram_message is not invoked, no send is issued, the
\* failure line is logged and the run ends with exit code 0.
C10_BlankTextIsGenerationFailure ==
    BlankGenerated
        => /\ inspiring_message = StrMsg(<<>>)
           /\ sendState = "not_called"
           /\ Sends = <<>>
           /\ pc \in {"main_if", "main_finish", "exit"}
           /\ pc \in {"main_finish", "exit"} => Logged("failed_to_get_message") = 1
           /\ Terminated => (exitCode = 0 /\ Logged("script_finished") = 1)

C10_Witness ==
    /\ BlankGenerated
    /\ Len(genResult.content) = 2
    /\ Logged("api_success") = 1
    /\ Logged("failed_to_get_message") = 1
    /\ Terminated
    /\ exitCode = 0

====
